---- MODULE Spec2Model ----
(***************************************************************************)
(* Model of generate_variants.py: the response parser (parse_variants),    *)
(* the chunk generator (generate_variant_chunk, process_single_variant)    *)
(* and the orchestrator (process_prompt) with its recursion.               *)
(*                                                                         *)
(* A text is a sequence of tokens.  The tokens "====", "Reasoning:" and    *)
(* "Variant:" stand for those literal substrings, "NL" for a newline, "SP" *)
(* for a blank, every other token for a piece of plain text that contains  *)
(* none of the former.                                                     *)
(***************************************************************************)
EXTENDS Integers, Sequences, FiniteSets, TLC

VARIABLES
    text,             \* parse_variants: the raw response being parsed
    parsed,           \* parse_variants: the returned list of pairs
    parse_pc,         \* "idle" | "ready" | "parsed"
    base_prompt,      \* process_prompt arguments of the top-level call
    difficulties,
    num_variants,
    recursion_depth,
    stack,            \* the active process_prompt invocations, innermost last
    outcome,          \* "idle" | "running" | "returned" | "error"
    result,           \* the list returned by the top-level call
    invocations,      \* history: the arguments of every process_prompt call
    batches,          \* history: what line 184 of the top-level call returned, per parent
    top_final,        \* history: final_results of the top-level call at line 177
    issued,           \* history: number of generate_text calls started
    resolved,         \* history: number of generate_text calls that ended
    failures          \* history: number of generate_text calls that raised

vars == <<text, parsed, parse_pc, base_prompt, difficulties, num_variants,
          recursion_depth, stack, outcome, result, invocations, batches,
          top_final, issued, resolved, failures>>

parseVars == <<text, parsed, parse_pc>>
runVars == <<base_prompt, difficulties, num_variants, recursion_depth, stack,
             outcome, result, invocations, batches, top_final, issued,
             resolved, failures>>

(***************************************************************************)
(* Bounds                                                                  *)
(***************************************************************************)
MaxTextLen == 5          \* exhaustive texts over Alphabet up to this length
MaxBlocks == 2           \* library blocks joined by "====" in a composed text
MaxVariants == 4         \* largest num_variants of an orchestration run
MaxDepth == 1            \* largest recursion_depth of an orchestration run
MaxCalls == 6            \* most generate_text calls one run may need
MaxChunkVariants == 12   \* largest num_variants when only the chunking is run

(***************************************************************************)
(* Tokens and string helpers                                               *)
(***************************************************************************)
DELIM == "===="
REASONING == "Reasoning:"
VARIANT == "Variant:"
NL == "NL"
SP == "SP"

IsSpace(t) == t \in {NL, SP}

Contains(s, t) == \E i \in 1..Len(s) : s[i] = t

\* str.lstrip / str.rstrip / str.strip
RECURSIVE lstrip(_)
lstrip(s) == IF s # <<>> /\ IsSpace(Head(s)) THEN lstrip(Tail(s)) ELSE s

RECURSIVE rstrip(_)
rstrip(s) ==
    IF s # <<>> /\ IsSpace(s[Len(s)]) THEN rstrip(SubSeq(s, 1, Len(s) - 1)) ELSE s

strip(s) == rstrip(lstrip(s))

\* first index >= i that holds no whitespace (the greedy \s* of the split pattern)
RECURSIVE SkipSpace(_, _)
SkipSpace(s, i) ==
    IF i <= Len(s) /\ IsSpace(s[i]) THEN SkipSpace(s, i + 1) ELSE i

\* re.split(r"====\s*", text): the pieces between the matches, empty ones kept
RECURSIVE SplitFrom(_, _, _)
SplitFrom(s, i, cur) ==
    IF i > Len(s) THEN <<cur>>
    ELSE IF s[i] = DELIM THEN <<cur>> \o SplitFrom(s, SkipSpace(s, i + 1), <<>>)
    ELSE SplitFrom(s, i + 1, Append(cur, s[i]))

re_split(s) == SplitFrom(s, 1, <<>>)

\* str.splitlines(): split at newlines, no empty last line
RECURSIVE LinesFrom(_, _, _)
LinesFrom(s, i, cur) ==
    IF i > Len(s) THEN (IF cur = <<>> THEN <<>> ELSE <<cur>>)
    ELSE IF s[i] = NL THEN <<cur>> \o LinesFrom(s, i + 1, <<>>)
    ELSE LinesFrom(s, i + 1, Append(cur, s[i]))

splitlines(s) == LinesFrom(s, 1, <<>>)

startswith(s, t) == s # <<>> /\ Head(s) = t

\* re.search(r"Reasoning:\s*(.*?)\s*Variant:", block, re.DOTALL), group(1).strip();
\* "" when there is no match
reasoning_text(block) ==
    LET rs == {i \in 1..Len(block) : block[i] = REASONING}
        starts == {i \in rs : \E j \in (i + 1)..Len(block) : block[j] = VARIANT}
    IN  IF starts = {} THEN <<>>
        ELSE LET i == CHOOSE x \in starts : \A y \in starts : x <= y
                 j == CHOOSE x \in (i + 1)..Len(block) :
                          /\ block[x] = VARIANT
                          /\ \A y \in (i + 1)..(x - 1) : block[y] # VARIANT
             IN  strip(SubSeq(block, i + 1, j - 1))

\* the loop of lines 111-114 without its break: the last such line wins
variant_expr_NoBreak(block) ==
    LET lines == splitlines(block)
        hits == {k \in 1..Len(lines) : startswith(strip(lines[k]), VARIANT)}
    IN  IF hits = {} THEN <<>>
        ELSE LET k == CHOOSE x \in hits : \A y \in hits : x >= y
             IN  strip(Tail(strip(lines[k])))

\* lines 110-114: the text after "Variant:" on the first line that starts with
\* it (whitespace stripped); <<>> stands for None and for ""
variant_expr(block) ==
    LET lines == splitlines(block)
        hits == {k \in 1..Len(lines) : startswith(strip(lines[k]), VARIANT)}
    IN  IF hits = {} THEN <<>>
        ELSE LET k == CHOOSE x \in hits : \A y \in hits : x <= y
             IN  strip(Tail(strip(lines[k])))

\* lines 106-116: the pairs one block contributes
parse_block(block) ==
    IF Contains(block, VARIANT) /\ Contains(block, REASONING)
    THEN IF variant_expr(block) # <<>>
         THEN <<[reasoning |-> reasoning_text(block), variant |-> variant_expr(block)]>>
         ELSE <<>>
    ELSE <<>>

RECURSIVE parse_blocks(_)
parse_blocks(blocks) ==
    IF blocks = <<>> THEN <<>>
    ELSE parse_block(Head(blocks)) \o parse_blocks(Tail(blocks))

parse_variants(s) == parse_blocks(re_split(s))

(***************************************************************************)
(* Inputs of the parser                                                    *)
(***************************************************************************)
Alphabet == {DELIM, REASONING, VARIANT, NL, SP, "x"}

SeqsUpTo(S, n) == UNION {[1..k -> S] : k \in 0..n}

\* the text of the spec's example
ExampleText ==
    <<DELIM, NL, "Variant 1:", NL, REASONING, SP, "foo", NL, VARIANT, SP, "bar", NL, DELIM>>

\* blocks as a model may answer them, well-formed and not
BlockLibrary == {
    <<NL, "Variant 1:", NL, REASONING, SP, "foo", NL, VARIANT, SP, "bar", NL>>,
    <<REASONING, "r", NL, VARIANT, "a", NL>>,
    <<REASONING, "r", NL, "x", NL, SP, VARIANT, SP, "b", SP, "c">>,
    <<REASONING, "r", NL, VARIANT, NL>>,
    <<REASONING, "r", SP, VARIANT, "a">>,
    <<VARIANT, "a", NL, REASONING, "r">>,
    <<REASONING, "r", NL, VARIANT, NL, VARIANT, "a">>,
    <<REASONING, "r", NL>>,
    <<VARIANT, "a", NL>>,
    <<"x", NL>>,
    <<>> }

RECURSIVE JoinBlocks(_)
JoinBlocks(bs) ==
    IF bs = <<>> THEN <<>>
    ELSE IF Len(bs) = 1 THEN bs[1]
    ELSE bs[1] \o <<DELIM, NL>> \o JoinBlocks(Tail(bs))

ComposedTexts ==
    {<<DELIM, NL>> \o JoinBlocks(bs) \o <<DELIM>> :
        bs \in UNION {[1..k -> BlockLibrary] : k \in 1..MaxBlocks}}

ParseInputs == SeqsUpTo(Alphabet, MaxTextLen) \cup ComposedTexts \cup {ExampleText}

(***************************************************************************)
(* Specification of the parser alone                                       *)
(***************************************************************************)
RunIdle ==
    /\ base_prompt = <<>>
    /\ difficulties = <<>>
    /\ num_variants = 0
    /\ recursion_depth = 0
    /\ stack = <<>>
    /\ outcome = "idle"
    /\ result = <<>>
    /\ invocations = <<>>
    /\ batches = <<>>
    /\ top_final = <<>>
    /\ issued = 0
    /\ resolved = 0
    /\ failures = 0

InitParse ==
    /\ text \in ParseInputs
    /\ parsed = <<>>
    /\ parse_pc = "ready"
    /\ RunIdle

Parse ==
    /\ parse_pc = "ready"
    /\ parsed' = parse_variants(text)
    /\ parse_pc' = "parsed"
    /\ UNCHANGED <<text, runVars>>

NextParse == Parse

SpecParse == InitParse /\ [][NextParse]_vars

(***************************************************************************)
(* Chunk sizing, lines 160-165                                             *)
(***************************************************************************)
buffer_multiplier == 3
CHUNK_SIZE == 10

\* math.ceil(total / 10) for total >= 0
CeilDiv(total, k) == (total + k - 1) \div k

num_chunks_of(total) == CeilDiv(total, CHUNK_SIZE)

\* the last chunk's remainder taken one chunk too far
chunk_count_OffByOne(total, i) ==
    IF i < num_chunks_of(total) - 1
    THEN CHUNK_SIZE
    ELSE total - CHUNK_SIZE * num_chunks_of(total)

\* line 164: the count requested by chunk i (0-based) of num_chunks
chunk_count(total, i) ==
    IF i < num_chunks_of(total) - 1
    THEN CHUNK_SIZE
    ELSE total - CHUNK_SIZE * (num_chunks_of(total) - 1)

\* lines 161-165 for one difficulty
chunks_for(difficulty, n) ==
    [k \in 1..num_chunks_of(n * buffer_multiplier) |->
        [difficulty |-> difficulty,
         count |-> chunk_count(n * buffer_multiplier, k - 1)]]

\* lines 160-165: the task list, difficulty by difficulty
RECURSIVE build_tasks(_, _)
build_tasks(diffs, n) ==
    IF diffs = <<>> THEN <<>>
    ELSE chunks_for(Head(diffs), n) \o build_tasks(Tail(diffs), n)

(***************************************************************************)
(* Chunk generator, lines 120-151                                          *)
(***************************************************************************)
NONE == [none |-> TRUE]

\* process_single_variant.  transformations_used (a random sample) and
\* timestamp (the clock) are left out of the record: nothing below reads them.
process_single_variant(original_prompt, difficulty, variant_data) ==
    IF variant_data.variant = <<>> THEN NONE
    ELSE [original |-> original_prompt,
          requested_difficulty |-> difficulty,
          variant |-> variant_data.variant,
          reasoning |-> variant_data.reasoning,
          evaluation |-> "None"]

\* lines 131-136 applied to the text generate_text returned: gather keeps the
\* parse order, the list comprehension drops the None results
generate_variant_chunk(prompt, difficulty, response_text) ==
    LET parsed_variants == parse_variants(response_text)
        processed_variants ==
            [k \in 1..Len(parsed_variants) |->
                process_single_variant(prompt, difficulty, parsed_variants[k])]
    IN  SelectSeq(processed_variants, LAMBDA v : v # NONE)

(***************************************************************************)
(* Orchestrator, lines 154-188                                             *)
(***************************************************************************)
\* the results taken in the order the calls completed (as_completed)
gather_results_AsCompleted(outputs, order) ==
    [k \in 1..Len(order) |-> outputs[order[k]]]

\* asyncio.gather(*[t[1] for t in tasks]): the results in the order of the
\* awaitables, whatever the order they completed in
gather_results(outputs, order) == outputs

\* the membership test of line 172 left out
RECURSIVE merge_chunk_NoDedup(_, _, _)
merge_chunk_NoDedup(st, difficulty, records) ==
    IF records = <<>> THEN st
    ELSE merge_chunk_NoDedup(
             [seen |-> st.seen \cup {Head(records).variant},
              dict |-> [st.dict EXCEPT ![difficulty] = Append(@, Head(records))]],
             difficulty, Tail(records))

\* seen_variants kept per difficulty instead of per call
RECURSIVE merge_chunk_PerDifficulty(_, _, _)
merge_chunk_PerDifficulty(st, difficulty, records) ==
    IF records = <<>> THEN st
    ELSE LET variant == Head(records)
             expr == variant.variant
             mine == {st.dict[difficulty][k].variant : k \in 1..Len(st.dict[difficulty])}
         IN  IF expr # <<>> /\ expr \notin mine
             THEN merge_chunk_PerDifficulty(
                      [seen |-> st.seen \cup {expr},
                       dict |-> [st.dict EXCEPT ![difficulty] = Append(@, variant)]],
                      difficulty, Tail(records))
             ELSE merge_chunk_PerDifficulty(st, difficulty, Tail(records))

\* lines 170-174 for the records of one chunk; st = [seen, dict]
RECURSIVE merge_chunk(_, _, _)
merge_chunk(st, difficulty, records) ==
    IF records = <<>> THEN st
    ELSE LET variant == Head(records)
             expr == variant.variant
         IN  IF expr # <<>> /\ expr \notin st.seen
             THEN merge_chunk(
                      [seen |-> st.seen \cup {expr},
                       dict |-> [st.dict EXCEPT ![difficulty] = Append(@, variant)]],
                      difficulty, Tail(records))
             ELSE merge_chunk(st, difficulty, Tail(records))

\* lines 169-174 from task idx on
RECURSIVE merge_from(_, _, _, _)
merge_from(st, tasks, chunk_results, idx) ==
    IF idx > Len(tasks) THEN st
    ELSE merge_from(merge_chunk(st, tasks[idx].difficulty, chunk_results[idx]),
                    tasks, chunk_results, idx + 1)

Range(s) == {s[i] : i \in 1..Len(s)}

\* lines 156, 168-174
merge(diffs, tasks, chunk_results) ==
    merge_from([seen |-> {}, dict |-> [d \in Range(diffs) |-> <<>>]],
               tasks, chunk_results, 1)

\* the slice forgotten
Take_NoSlice(a, n) == a

\* a[:n] for n >= 0
Take(a, n) == SubSeq(a, 1, IF n < Len(a) THEN n ELSE Len(a))

\* lines 176-177
RECURSIVE truncate_all(_, _, _)
truncate_all(diffs, dict, n) ==
    IF diffs = <<>> THEN <<>>
    ELSE Take(dict[Head(diffs)], n) \o truncate_all(Tail(diffs), dict, n)

\* lines 155-165: the locals of a call as it suspends in gather at line 167
NewFrame(prompt, diffs, n, depth, parent) ==
    [base_prompt |-> prompt,
     difficulties |-> diffs,
     num_variants |-> n,
     recursion_depth |-> depth,
     parent |-> parent,
     tasks |-> build_tasks(diffs, n),
     status |-> [k \in 1..Len(build_tasks(diffs, n)) |-> "pending"],
     outputs |-> [k \in 1..Len(build_tasks(diffs, n)) |-> <<>>],
     order |-> <<>>,
     chunk_results |-> <<>>,
     seen_variants |-> {},
     difficulty_dict |-> [d \in Range(diffs) |-> <<>>],
     final_results |-> <<>>,
     recursive_results |-> <<>>,
     idx |-> 1,
     pc |-> "gather"]

\* the recursive call made on the caller's own prompt
RecursiveFrame_SamePrompt(f) ==
    NewFrame(f.base_prompt, f.difficulties, f.num_variants,
             f.recursion_depth - 1, f.idx)

\* lines 183-184: the arguments of the recursive call for f.final_results[f.idx]
RecursiveFrame(f) ==
    NewFrame(f.final_results[f.idx].variant, f.difficulties, f.num_variants,
             f.recursion_depth - 1, f.idx)

Call(f) ==
    [base_prompt |-> f.base_prompt, difficulties |-> f.difficulties,
     num_variants |-> f.num_variants, recursion_depth |-> f.recursion_depth,
     parent |-> f.parent]

(***************************************************************************)
(* Inputs of the orchestrator                                              *)
(***************************************************************************)
DifficultyLists ==
    {<<>>, <<"easier">>, <<"easier", "harder">>, <<"easier", "easier">>}

BasePrompt == <<"p">>

\* one response block as the prompt template asks for it
Block(reasoning, variant) == <<REASONING, SP, reasoning, NL, VARIANT, SP, variant, NL, DELIM, NL>>

\* what generate_text may answer
Responses == {
    <<"x", NL, DELIM, NL, REASONING, SP, "r0", NL, VARIANT, NL, DELIM>>,
    <<DELIM, NL>> \o Block("r1", "a"),
    <<DELIM, NL>> \o Block("r2", "a") \o Block("r2", "b"),
    <<DELIM, NL>> \o Block("r1", "b"),
    <<DELIM, NL>> \o Block("r1", "c") \o Block("r3", "a") }

\* most generate_text calls a run with these arguments can make
RECURSIVE WorstCaseCalls(_, _, _)
WorstCaseCalls(diffs, n, depth) ==
    Len(build_tasks(diffs, n))
        + (IF depth > 0 THEN Len(diffs) * n * WorstCaseCalls(diffs, n, depth - 1) ELSE 0)

(***************************************************************************)
(* Specification of an orchestration run                                   *)
(***************************************************************************)
ParseIdle ==
    /\ text = <<>>
    /\ parsed = <<>>
    /\ parse_pc = "idle"

Init ==
    /\ ParseIdle
    /\ base_prompt = BasePrompt
    /\ difficulties \in DifficultyLists
    /\ num_variants \in 0..MaxVariants
    /\ recursion_depth \in 0..MaxDepth
    /\ WorstCaseCalls(difficulties, num_variants, recursion_depth) <= MaxCalls
    /\ stack = <<>>
    /\ outcome = "idle"
    /\ result = <<>>
    /\ invocations = <<>>
    /\ batches = <<>>
    /\ top_final = <<>>
    /\ issued = 0
    /\ resolved = 0
    /\ failures = 0

Top == stack[Len(stack)]

SetTop(f) == [stack EXCEPT ![Len(stack)] = f]

\* main awaits process_prompt (line 194): the call runs up to its gather
Invoke ==
    /\ outcome = "idle"
    /\ LET f == NewFrame(base_prompt, difficulties, num_variants, recursion_depth, 0)
       IN  /\ stack' = <<f>>
           /\ invocations' = Append(invocations, Call(f))
           /\ issued' = issued + Len(f.tasks)
    /\ outcome' = "running"
    /\ UNCHANGED <<parseVars, base_prompt, difficulties, num_variants,
                   recursion_depth, result, batches, top_final, resolved, failures>>

\* generate_text answers chunk i (line 129); lines 131-136 follow
ChunkReturn(i, response_text) ==
    /\ outcome = "running"
    /\ Top.pc = "gather"
    /\ i \in 1..Len(Top.tasks)
    /\ Top.status[i] = "pending"
    /\ stack' = SetTop([Top EXCEPT
            !.status[i] = "done",
            !.outputs[i] = generate_variant_chunk(Top.base_prompt,
                               Top.tasks[i].difficulty, response_text),
            !.order = Append(@, i)])
    /\ resolved' = resolved + 1
    /\ UNCHANGED <<parseVars, base_prompt, difficulties, num_variants,
                   recursion_depth, outcome, result, invocations, batches,
                   top_final, issued, failures>>

\* generate_text raises in chunk i (line 129)
ChunkFail(i) ==
    /\ outcome = "running"
    /\ Top.pc = "gather"
    /\ i \in 1..Len(Top.tasks)
    /\ Top.status[i] = "pending"
    /\ stack' = SetTop([Top EXCEPT !.status[i] = "failed"])
    /\ resolved' = resolved + 1
    /\ failures' = failures + 1
    /\ UNCHANGED <<parseVars, base_prompt, difficulties, num_variants,
                   recursion_depth, outcome, result, invocations, batches,
                   top_final, issued>>

\* gather(..., return_exceptions=True)-like: the failed chunk counts as empty
Raise_Swallowed ==
    /\ outcome = "running"
    /\ Top.pc = "gather"
    /\ \E i \in 1..Len(Top.tasks) : Top.status[i] = "failed"
    /\ stack' = SetTop([Top EXCEPT
            !.status = [k \in 1..Len(Top.tasks) |->
                           IF Top.status[k] = "failed" THEN "done" ELSE Top.status[k]]])
    /\ UNCHANGED <<parseVars, base_prompt, difficulties, num_variants,
                   recursion_depth, outcome, result, invocations, batches,
                   top_final, issued, resolved, failures>>

\* gather re-raises the exception at line 167; no caller catches it, so it
\* leaves every enclosing process_prompt (line 184) and main
Raise ==
    /\ outcome = "running"
    /\ Top.pc = "gather"
    /\ \E i \in 1..Len(Top.tasks) : Top.status[i] = "failed"
    /\ stack' = <<>>
    /\ outcome' = "error"
    /\ UNCHANGED <<parseVars, base_prompt, difficulties, num_variants,
                   recursion_depth, result, invocations, batches, top_final,
                   issued, resolved, failures>>

\* gather returns (line 167); merge and truncation, lines 168-177
Merge ==
    /\ outcome = "running"
    /\ Top.pc = "gather"
    /\ \A i \in 1..Len(Top.tasks) : Top.status[i] = "done"
    /\ LET cr == gather_results(Top.outputs, Top.order)
           st == merge(Top.difficulties, Top.tasks, cr)
           fr == truncate_all(Top.difficulties, st.dict, Top.num_variants)
       IN  /\ stack' = SetTop([Top EXCEPT
                   !.chunk_results = cr,
                   !.seen_variants = st.seen,
                   !.difficulty_dict = st.dict,
                   !.final_results = fr,
                   !.pc = "loop"])
           /\ top_final' = IF Len(stack) = 1 THEN fr ELSE top_final
    /\ UNCHANGED <<parseVars, base_prompt, difficulties, num_variants,
                   recursion_depth, outcome, result, invocations, batches,
                   issued, resolved, failures>>

\* lines 180-184: the next iteration of the recursion loop calls process_prompt
RecurseCall ==
    /\ outcome = "running"
    /\ Top.pc = "loop"
    /\ Top.recursion_depth > 0
    /\ Top.idx <= Len(Top.final_results)
    /\ LET f == RecursiveFrame(Top)
       IN  /\ stack' = Append(stack, f)
           /\ invocations' = Append(invocations, Call(f))
           /\ issued' = issued + Len(f.tasks)
    /\ UNCHANGED <<parseVars, base_prompt, difficulties, num_variants,
                   recursion_depth, outcome, result, batches, top_final,
                   resolved, failures>>

\* line 186 with the two lists swapped
return_value_RecursiveFirst(f) ==
    IF f.recursion_depth > 0 THEN f.recursive_results \o f.final_results
    ELSE f.final_results

\* lines 186-188: what the call returns
return_value(f) ==
    IF f.recursion_depth > 0 THEN f.final_results \o f.recursive_results
    ELSE f.final_results

\* line 188, and line 185 in the caller
Return ==
    /\ outcome = "running"
    /\ Top.pc = "loop"
    /\ (Top.recursion_depth > 0 => Top.idx > Len(Top.final_results))
    /\ IF Len(stack) = 1
       THEN /\ stack' = <<>>
            /\ outcome' = "returned"
            /\ result' = return_value(Top)
            /\ UNCHANGED batches
       ELSE /\ stack' = [SubSeq(stack, 1, Len(stack) - 1) EXCEPT
                   ![Len(stack) - 1].recursive_results = @ \o return_value(Top),
                   ![Len(stack) - 1].idx = @ + 1]
            /\ batches' = IF Len(stack) = 2
                          THEN Append(batches, [parent |-> Top.parent,
                                                records |-> return_value(Top)])
                          ELSE batches
            /\ UNCHANGED <<outcome, result>>
    /\ UNCHANGED <<parseVars, base_prompt, difficulties, num_variants,
                   recursion_depth, invocations, top_final, issued, resolved,
                   failures>>

\* the chunk calls of the innermost invocation
TaskIndexes == IF stack = <<>> THEN {} ELSE 1..Len(Top.tasks)

Next ==
    \/ Invoke
    \/ \E i \in TaskIndexes, r \in Responses : ChunkReturn(i, r)
    \/ \E i \in TaskIndexes : ChunkFail(i)
    \/ Raise
    \/ Merge
    \/ RecurseCall
    \/ Return

Spec == Init /\ [][Next]_vars

(***************************************************************************)
(* Specification of the chunking alone                                     *)
(***************************************************************************)
InitChunks ==
    /\ ParseIdle
    /\ base_prompt = BasePrompt
    /\ difficulties \in DifficultyLists
    /\ num_variants \in 0..MaxChunkVariants
    /\ recursion_depth = 0
    /\ stack = <<>>
    /\ outcome = "idle"
    /\ result = <<>>
    /\ invocations = <<>>
    /\ batches = <<>>
    /\ top_final = <<>>
    /\ issued = 0
    /\ resolved = 0
    /\ failures = 0

NextChunks == Invoke

SpecChunks == InitChunks /\ [][NextChunks]_vars

(***************************************************************************)
(* Helpers of the properties                                               *)
(***************************************************************************)
Frames == {stack[i] : i \in 1..Len(stack)}

LoopFrames == {f \in Frames : f.pc = "loop"}

ByDifficulty(records, d) == SelectSeq(records, LAMBDA r : r.requested_difficulty = d)

Occurrences(diffs, d) == Cardinality({j \in 1..Len(diffs) : diffs[j] = d})

Distinct(diffs) == \A i, j \in 1..Len(diffs) : i # j => diffs[i] # diffs[j]

Texts(records) == {records[i].variant : i \in 1..Len(records)}

RECURSIVE Flatten(_)
Flatten(ss) == IF ss = <<>> THEN <<>> ELSE Head(ss) \o Flatten(Tail(ss))

(***************************************************************************)
(* C1                                                                      *)
(***************************************************************************)
\* C1 as stated, on the runs whose difficulties are pairwise distinct: the
\* list a top-level call returns holds at most num_variants records of each
\* requested difficulty.  (A list that names a difficulty twice breaks the
\* statement without recursion: lines 176-177 then emit that list twice.)
C1_AtMostNumVariantsReturned ==
    (outcome = "returned" /\ Distinct(difficulties)) =>
        \A d \in Range(difficulties) : Len(ByDifficulty(result, d)) <= num_variants

\* C1 amended: in every process_prompt invocation the top-level part of the
\* result (final_results at line 177, before recursive results are appended)
\* holds at most num_variants records of difficulty d for each occurrence of d
\* in the difficulties list; so a call with recursion_depth 0 and pairwise
\* distinct difficulties returns at most num_variants records per difficulty.
C1_AtMostNumVariantsPerInvocation ==
    /\ \A f \in LoopFrames : \A d \in Range(f.difficulties) :
           Len(ByDifficulty(f.final_results, d))
               <= f.num_variants * Occurrences(f.difficulties, d)
    /\ (outcome = "returned" /\ recursion_depth = 0) =>
           \A d \in Range(difficulties) :
               /\ Len(ByDifficulty(result, d))
                      <= num_variants * Occurrences(difficulties, d)
               /\ Distinct(difficulties) => Len(ByDifficulty(result, d)) <= num_variants

\* the truncation cut a difficulty's list down to num_variants
C1_Witness ==
    \E f \in LoopFrames : \E d \in Range(f.difficulties) :
        /\ f.num_variants >= 1
        /\ Distinct(f.difficulties)
        /\ Len(f.difficulty_dict[d]) > f.num_variants
        /\ Len(ByDifficulty(f.final_results, d)) = f.num_variants

(***************************************************************************)
(* C2                                                                      *)
(***************************************************************************)
\* C2: no two records of the list a top-level call returns have the same
\* variant text.
C2_GlobalUniqueness ==
    outcome = "returned" =>
        \A i, j \in 1..Len(result) : i # j => result[i].variant # result[j].variant

(***************************************************************************)
(* C3                                                                      *)
(***************************************************************************)
BothMarkers(block) == Contains(block, VARIANT) /\ Contains(block, REASONING)

\* "Variant:" at position p is the first thing on its line
AtLineStart(block, p) ==
    /\ block[p] = VARIANT
    /\ \E s \in 0..(p - 1) :
           /\ s = 0 \/ block[s] = NL
           /\ \A m \in (s + 1)..(p - 1) : block[m] = SP

\* something other than whitespace follows position p on its line
TextFollows(block, p) ==
    \E e \in (p + 1)..Len(block) :
        /\ ~IsSpace(block[e])
        /\ \A m \in (p + 1)..e : block[m] # NL

\* the first line that starts with "Variant:" carries a variant text
HasVariantLine(block) ==
    \E p \in 1..Len(block) :
        /\ AtLineStart(block, p)
        /\ \A q \in 1..(p - 1) : ~AtLineStart(block, q)
        /\ TextFollows(block, p)

ExamplePairs == <<[reasoning |-> <<"foo">>, variant |-> <<"bar">>]>>

\* C3 as stated: one pair for every block that holds both markers, none for
\* the other blocks; the example text gives the pair (foo, bar).
C3_OnePairPerMarkedBlock ==
    parse_pc = "parsed" =>
        LET blocks == re_split(text)
        IN  /\ Len(parsed)
                   = Cardinality({i \in 1..Len(blocks) : BothMarkers(blocks[i])})
            /\ text = ExampleText => parsed = ExamplePairs

\* C3 amended: a block yields one pair when it holds both markers and the
\* first of its lines that starts with "Variant:" has text after the marker,
\* and no pair otherwise; so the output length is the number of such blocks,
\* at most the number of blocks with both markers, no pair has an empty
\* variant, and the example text gives the pair (foo, bar).
C3_OnePairPerWellFormedBlock ==
    parse_pc = "parsed" =>
        LET blocks == re_split(text)
            marked == {i \in 1..Len(blocks) : BothMarkers(blocks[i])}
            good == {i \in marked : HasVariantLine(blocks[i])}
        IN  /\ Len(parsed) = Cardinality(good)
            /\ \A k \in 1..Len(parsed) : parsed[k].variant # <<>>
            /\ text = ExampleText => parsed = ExamplePairs

\* two blocks hold both markers, only one of them gives a pair
C3_Witness ==
    /\ parse_pc = "parsed"
    /\ LET blocks == re_split(text)
       IN  Cardinality({i \in 1..Len(blocks) : BothMarkers(blocks[i])}) = 2
    /\ Len(parsed) = 1

(***************************************************************************)
(* C4                                                                      *)
(***************************************************************************)
RECURSIVE SumCounts(_)
SumCounts(ts) == IF ts = <<>> THEN 0 ELSE Head(ts).count + SumCounts(Tail(ts))

CountsOf(total) == [k \in 1..num_chunks_of(total) |-> chunk_count(total, k - 1)]

\* C4: with num_variants = n >= 1 and total = 3n, every difficulty gets
\* ceil(total/10) chunks, all of 10 but the last, which takes the rest; every
\* count is in 1..10 and the counts of a difficulty sum to total; total 9
\* gives [9] and total 25 gives [10, 10, 5].
C4_ChunkCounts ==
    /\ (outcome = "running" /\ num_variants >= 1) =>
           LET total == 3 * num_variants
               chunks == CHOOSE k \in 1..total : 10 * k >= total /\ 10 * (k - 1) < total
               tasks == stack[1].tasks
           IN  /\ Len(tasks) = chunks * Len(difficulties)
               /\ \A j \in 1..Len(difficulties) : \A c \in 1..chunks :
                      LET t == tasks[(j - 1) * chunks + c]
                      IN  /\ t.difficulty = difficulties[j]
                          /\ t.count = IF c < chunks THEN 10 ELSE total - 10 * (chunks - 1)
                          /\ t.count \in 1..10
               /\ SumCounts(tasks) = total * Len(difficulties)
    /\ CountsOf(9) = <<9>>
    /\ CountsOf(25) = <<10, 10, 5>>

\* two difficulties, several chunks each, the last one smaller
C4_Witness ==
    /\ outcome = "running"
    /\ Len(difficulties) = 2
    /\ Len(stack[1].tasks) >= 6
    /\ stack[1].tasks[Len(stack[1].tasks)].count < 10

(***************************************************************************)
(* C5                                                                      *)
(***************************************************************************)
AnyFailed(f) == \E i \in 1..Len(f.tasks) : f.status[i] = "failed"

\* C5: once a generate_text call has failed the run cannot return a list: the
\* call that awaits the failed chunk can only raise, the raise leaves every
\* enclosing call, the run ends in the error outcome without a result,
\* whatever was collected before; and no call is made again (never more
\* calls end than were started, and a run that returns made each call once).
C5_FailurePropagates ==
    /\ failures > 0 => (outcome \in {"running", "error"} /\ result = <<>>)
    /\ (failures > 0 /\ outcome = "running") =>
           /\ AnyFailed(Top)
           /\ ENABLED Raise
           /\ ~ENABLED Merge /\ ~ENABLED RecurseCall /\ ~ENABLED Return
    /\ outcome = "error" => (failures >= 1 /\ stack = <<>> /\ result = <<>>)
    /\ outcome = "returned" => (failures = 0 /\ resolved = issued)
    /\ resolved <= issued

\* the failure came in a recursive call, after the top-level batch and a
\* first recursive batch were complete, with a sibling chunk already answered
C5_Witness ==
    /\ outcome = "error"
    /\ top_final # <<>>
    /\ batches # <<>>
    /\ batches[1].records # <<>>
    /\ resolved >= 4
    /\ result = <<>>

(***************************************************************************)
(* C6                                                                      *)
(***************************************************************************)
TopCall ==
    [base_prompt |-> base_prompt, difficulties |-> difficulties,
     num_variants |-> num_variants, recursion_depth |-> recursion_depth,
     parent |-> 0]

\* C6: a run with recursion_depth 0 makes the one top-level call and all its
\* records have the base prompt as original; a run with recursion_depth 1
\* makes, after the top-level call, exactly one call per retained top-level
\* record, in their order, on that record's variant text, with the same
\* difficulties and num_variants and depth 0, and the records that call
\* returns have that text as original.
C6_RecursiveInvocations ==
    /\ (outcome = "returned" /\ recursion_depth = 0) =>
           /\ invocations = <<TopCall>>
           /\ \A k \in 1..Len(result) : result[k].original = base_prompt
    /\ (outcome = "returned" /\ recursion_depth = 1) =>
           /\ invocations = <<TopCall>> \o
                  [i \in 1..Len(top_final) |->
                      [base_prompt |-> top_final[i].variant,
                       difficulties |-> difficulties,
                       num_variants |-> num_variants,
                       recursion_depth |-> 0,
                       parent |-> i]]
           /\ Len(batches) = Len(top_final)
           /\ \A i \in 1..Len(batches) : \A k \in 1..Len(batches[i].records) :
                  batches[i].records[k].original = top_final[i].variant

\* depth 1, two retained top-level records, each with children
C6_Witness ==
    /\ outcome = "returned"
    /\ recursion_depth = 1
    /\ Len(top_final) = 2
    /\ Len(invocations) = 3
    /\ \A i \in 1..Len(batches) : batches[i].records # <<>>

(***************************************************************************)
(* C7                                                                      *)
(***************************************************************************)
\* position of the first record with this variant text in the chunk outputs
\* read in submission order
FirstPos(outputs, v) ==
    LET all == Flatten(outputs)
    IN  CHOOSE k \in 1..Len(all) :
            all[k].variant = v /\ \A m \in 1..(k - 1) : all[m].variant # v

\* records falls into one run per entry of diffs, in that order, each run of
\* that difficulty and in the order of first occurrence in the chunk outputs
GroupedInOrder(records, diffs, outputs) ==
    \E cut \in [0..Len(diffs) -> 0..Len(records)] :
        /\ cut[0] = 0
        /\ cut[Len(diffs)] = Len(records)
        /\ \A j \in 1..Len(diffs) :
               /\ cut[j - 1] <= cut[j]
               /\ \A p \in (cut[j - 1] + 1)..cut[j] :
                      /\ records[p].requested_difficulty = diffs[j]
                      /\ \A q \in (p + 1)..cut[j] :
                             FirstPos(outputs, records[p].variant)
                                 < FirstPos(outputs, records[q].variant)

\* C7: the returned list is the top-level records, difficulty by difficulty in
\* the order of the difficulties list and in acceptance order inside a
\* difficulty, followed by the recursive batches in the order of their parent
\* records, each batch whole.
C7_OutputOrder ==
    /\ \A f \in LoopFrames :
           GroupedInOrder(f.final_results, f.difficulties, f.outputs)
    /\ \A i \in 1..Len(batches) : batches[i].parent = i
    /\ outcome = "returned" =>
           /\ result = top_final \o Flatten([i \in 1..Len(batches) |-> batches[i].records])
           /\ Len(batches) = IF recursion_depth > 0 THEN Len(top_final) ELSE 0

\* two difficulties with a top-level record each, and children of both
C7_Witness ==
    /\ outcome = "returned"
    /\ recursion_depth = 1
    /\ Len(top_final) = 2
    /\ top_final[1].requested_difficulty # top_final[2].requested_difficulty
    /\ Len(batches) = 2
    /\ batches[1].records # <<>>
    /\ batches[2].records # <<>>
    /\ Len(result) >= 4

(***************************************************************************)
(* C8                                                                      *)
(***************************************************************************)
\* C8: while chunk calls of an invocation are unresolved its seen set, its
\* per-difficulty lists and its result are empty; after the join the merge has
\* read the output of the chunk submitted i-th in place i, and the result is
\* the merge of the chunk outputs in submission order, whatever the order in
\* which the calls completed.
C8_CompletionOrderIrrelevant ==
    \A f \in Frames :
        /\ f.pc = "gather" =>
               /\ f.seen_variants = {}
               /\ \A d \in Range(f.difficulties) : f.difficulty_dict[d] = <<>>
               /\ f.final_results = <<>>
        /\ f.pc = "loop" =>
               /\ Len(f.chunk_results) = Len(f.tasks)
               /\ \A i \in 1..Len(f.tasks) : f.chunk_results[i] = f.outputs[i]
               /\ f.final_results =
                      truncate_all(f.difficulties,
                                   merge(f.difficulties, f.tasks, f.outputs).dict,
                                   f.num_variants)

\* the second chunk answered first, with a different output
C8_Witness ==
    \E f \in LoopFrames :
        /\ Len(f.order) >= 2
        /\ f.order[1] > f.order[2]
        /\ f.outputs[f.order[1]] # f.outputs[f.order[2]]
        /\ f.outputs[f.order[1]] # <<>>
        /\ f.outputs[f.order[2]] # <<>>
        /\ f.final_results # <<>>

(***************************************************************************)
(* C9                                                                      *)
(***************************************************************************)
\* the reference of C9: the chunk outputs concatenated in submission order, a
\* record kept when its text is not empty and no earlier record of the
\* concatenation has it, the kept records of each difficulty cut to n
Reference(diffs, outputs, n) ==
    LET all == Flatten(outputs)
        Kept(k) == /\ all[k].variant # <<>>
                   /\ \A m \in 1..(k - 1) : all[m].variant # all[k].variant
        ListOf(d) ==
            LET ks == SelectSeq([k \in 1..Len(all) |-> k],
                                LAMBDA k : Kept(k) /\ all[k].requested_difficulty = d)
            IN  [x \in 1..Len(ks) |-> all[ks[x]]]
        FirstN(l) == [x \in 1..(IF Len(l) < n THEN Len(l) ELSE n) |-> l[x]]
    IN  Flatten([j \in 1..Len(diffs) |-> FirstN(ListOf(diffs[j]))])

\* C9: the top-level part of the result of every invocation equals the
\* reference.
C9_MergeEqualsReference ==
    /\ \A f \in LoopFrames :
           f.final_results = Reference(f.difficulties, f.outputs, f.num_variants)
    /\ (stack # <<>> /\ stack[1].pc = "loop") => top_final = stack[1].final_results

\* a text of the first difficulty came again under the second and was dropped
\* there, and a list was cut
C9_Witness ==
    \E f \in LoopFrames :
        /\ Len(f.difficulties) = 2
        /\ Distinct(f.difficulties)
        /\ \E i, j \in 1..Len(f.tasks) :
               /\ f.tasks[i].difficulty # f.tasks[j].difficulty
               /\ Texts(f.outputs[i]) \cap Texts(f.outputs[j]) # {}
        /\ \E d \in Range(f.difficulties) : Len(f.difficulty_dict[d]) > f.num_variants
        /\ Len(f.final_results) = 2

(***************************************************************************)
(* C10                                                                     *)
(***************************************************************************)
DifficultyIndex(diffs, d) == CHOOSE j \in 1..Len(diffs) : diffs[j] = d

\* C10: a text that came in a chunk of an earlier difficulty is in no later
\* difficulty's list, and a text whose accepted record the truncation cut off
\* is nowhere in the top-level output.
C10_DedupBeforeTruncation ==
    \A f \in LoopFrames :
        /\ \A i, j \in 1..Len(f.tasks) :
               DifficultyIndex(f.difficulties, f.tasks[i].difficulty)
                   < DifficultyIndex(f.difficulties, f.tasks[j].difficulty)
               => Texts(f.outputs[i])
                      \cap Texts(f.difficulty_dict[f.tasks[j].difficulty]) = {}
        /\ \A d \in Range(f.difficulties) :
               \A k \in (f.num_variants + 1)..Len(f.difficulty_dict[d]) :
                   f.difficulty_dict[d][k].variant \notin Texts(f.final_results)

\* the later difficulty's chunks delivered num_variants distinct texts or
\* more, all of them seen under the earlier difficulty, one of them cut off
\* there: the later difficulty returns fewer than num_variants records
C10_Witness ==
    \E f \in LoopFrames :
        /\ f.difficulties = <<"easier", "harder">>
        /\ f.num_variants >= 1
        /\ Len(f.difficulty_dict["easier"]) > f.num_variants
        /\ LET late == UNION {Texts(f.outputs[j]) :
                           j \in {x \in 1..Len(f.tasks) : f.tasks[x].difficulty = "harder"}}
           IN  /\ Cardinality(late) >= f.num_variants
               /\ \E v \in late : v \notin Texts(f.final_results)
        /\ Len(ByDifficulty(f.final_results, "harder")) < f.num_variants

====
